---- MODULE Spec2Model ----
(***************************************************************************)
(* absh: A/B testing for shell scripts.  Model of the run loop of          *)
(* src/main.rs (main, run_pair, run_test) and of the metric aggregator of  *)
(* src/measure/tr.rs (AllMeasures, MeasureDyn).                            *)
(*                                                                         *)
(* The program is single-threaded; `pc` is the position of that thread.    *)
(* Exit statuses of the child processes, the peak-RSS counter and the      *)
(* output of the user-metric command are inputs chosen by the environment. *)
(* The u64 values of the samples never influence control flow, so a sample *)
(* is represented by the number of the round (call of run_pair) in which   *)
(* it was measured; that keeps order, removal and origin observable.       *)
(***************************************************************************)
EXTENDS Integers, Sequences, FiniteSets, TLC

\* Bounds of the model.
MaxExperiments == 2
MaxRounds == 3
MaxStored == 2

\* ExperimentName: the closed set A..E in declaration order (main.rs 167, 194-197).
ExperimentNames == <<"A", "B", "C", "D", "E">>

\* MeasureKey::ALL (key.rs 9).
MeasureKeyALL == <<"WallTime", "MaxRss", "UserDefinedMetric">>

MeasureKeys == {MeasureKeyALL[k] : k \in 1..Len(MeasureKeyALL)}

\* Option<T>: None is the empty set, Some(x) the singleton {x}.
None == {}

Some(x) == {x}

\* No wait result is pending.
NoStatus == [none |-> TRUE]

\* MeasureMap::new_all_default(): one empty store per metric kind (main.rs 172, 189).
new_all_default == [k \in MeasureKeys |-> <<>>]

VARIABLES
    opts,         \* the parsed command line (Opts), fixed after start
    experiments,  \* ExperimentMap<Experiment>: name -> measures (key -> samples)
    pc,           \* position of the single thread
    site,         \* which call of run_pair is active: "ignore_first" (215) or "loop" (266)
    indices,      \* run_pair's execution order
    idx,          \* position of run_pair's for loop in indices
    round,        \* number of calls of run_pair so far
    children,     \* spawned child processes not yet waited for
    result,       \* how main ended: "running", "Ok", an Err, or a panic
    graph_full,   \* main's local graph_full (279)
    graph_short,  \* main's local graph_short (280)
    raw_log,      \* what the run log holds per metric id after write_raw
    status,       \* run_test's local: what the last wait returned, until it is checked
    executed      \* the experiments run_test was called for in this call of run_pair

vars == <<opts, experiments, pc, site, indices, idx, round, children, result,
          graph_full, graph_short, raw_log, status, executed>>

--------------------------------------------------------------------------
\* Helpers

Range(s) == {s[j] : j \in 1..Len(s)}

SetMin(S) == CHOOSE x \in S : \A y \in S : x <= y

IsPrefix(s, t) == Len(s) <= Len(t) /\ SubSeq(t, 1, Len(s)) = s

\* The names that may be configured under the bound.
Candidates == {ExperimentNames[j] : j \in 1..MaxExperiments}

Position(n) == CHOOSE j \in 1..Len(ExperimentNames) : ExperimentNames[j] = n

\* All orders of the elements of S.
Orders(S) ==
    {s \in [1..Cardinality(S) -> S] : \A a, b \in 1..Cardinality(S) : a # b => s[a] # s[b]}

\* ExperimentMap::keys(): the entries in the fixed order A..E.
Keys(tests) ==
    CHOOSE s \in Orders(DOMAIN tests) :
        \A a, b \in 1..Len(s) : a < b => Position(s[a]) < Position(s[b])

\* Experiment::runs(): the number of completed runs of one experiment.
runs(t) == Len(t["WallTime"])

\* Variant of min_count: the largest count instead of the smallest.
min_count_max(tests) ==
    CHOOSE x \in {runs(tests[n]) : n \in DOMAIN tests} :
        \A y \in {runs(tests[n]) : n \in DOMAIN tests} : x >= y

\* main.rs 268: experiments.values_mut().map(|t| t.runs()).min().unwrap()
min_count(tests) == SetMin({runs(tests[n]) : n \in DOMAIN tests})

\* The value pushed for a run measured in round r.
Sample(r) == r

--------------------------------------------------------------------------
\* Command lines: -a is required, -b..-e are optional (main.rs 27-61).
OptsSet ==
    [present : {S \in SUBSET Candidates : "A" \in S},
     random_order : BOOLEAN,
     ignore_first : BOOLEAN,
     iterations : {None} \cup {Some(n) : n \in 0..MaxRounds},
     mem : BOOLEAN,
     metric : {None, Some("metric")}]

\* main.rs 161-212: options parsed, one Experiment per given script, stores empty.
Init ==
    /\ opts \in OptsSet
    /\ experiments = [n \in opts.present |-> new_all_default]
    /\ pc = "main"
    /\ site = "none"
    /\ indices = <<>>
    /\ idx = 0
    /\ round = 0
    /\ children = {}
    /\ result = "running"
    /\ graph_full = <<>>
    /\ graph_short = <<>>
    /\ raw_log = <<>>
    /\ status = NoStatus
    /\ executed = <<>>

\* main returns (Ok or Err) or panics: the process is over.
Exit(r) ==
    /\ pc' = "exit"
    /\ result' = r

\* main.rs 214 / 233: the ignore_first branch.
MainBranch ==
    /\ pc = "main"
    /\ site' = IF opts.ignore_first THEN "ignore_first" ELSE "loop"
    /\ pc' = "run_pair"
    /\ UNCHANGED <<opts, executed, experiments, indices, idx, round, children, result,
                   graph_full, graph_short, raw_log, status>>

\* Variant of RunPairOrders: with -r every position is drawn independently.
RunPairOrdersWithRepetition ==
    IF opts.random_order
    THEN [1..Cardinality(DOMAIN experiments) -> DOMAIN experiments]
    ELSE {Keys(experiments)}

\* run_pair, main.rs 150-153: the execution order of this round.
RunPairOrders ==
    IF opts.random_order THEN Orders(DOMAIN experiments)
    ELSE {Keys(experiments)}

RunPairStart ==
    /\ pc = "run_pair"
    /\ round < MaxRounds
    /\ \E order \in RunPairOrders : indices' = order
    /\ idx' = 1
    /\ executed' = <<>>
    /\ round' = round + 1
    /\ pc' = "spawn_warmup"
    /\ UNCHANGED <<opts, experiments, site, children, result,
                   graph_full, graph_short, raw_log, status>>

\* The experiment run_test is working on.
test == indices[idx]

\* run_test returned Ok(()): run_pair's for loop (154-157) goes on or ends.
ReturnOk ==
    /\ IF idx < Len(indices)
       THEN idx' = idx + 1 /\ pc' = "spawn_warmup"
       ELSE idx' = idx /\ pc' = "pair_done"
    /\ result' = result

\* run_test, main.rs 78: spawn_sh(&test.warmup)?
SpawnWarmup ==
    /\ pc = "spawn_warmup"
    /\ executed' = Append(executed, test)
    /\ \E spawned \in BOOLEAN :
        IF spawned
        THEN /\ children' = children \cup {<<test, "warmup">>}
             /\ pc' = "wait_warmup"
             /\ result' = result
        ELSE /\ children' = children
             /\ Exit("Err: spawn")
    /\ UNCHANGED <<opts, experiments, site, indices, idx, round, status,
                   graph_full, graph_short, raw_log>>

\* Variant of WaitWarmup: the exit status is polled and the child is not reaped.
WaitWarmupDetached ==
    /\ pc = "wait_warmup"
    /\ children' = children
    /\ \E success \in BOOLEAN : status' = [success |-> success]
    /\ pc' = "check_warmup"
    /\ UNCHANGED <<opts, executed, experiments, site, indices, idx, round, result,
                   graph_full, graph_short, raw_log>>

\* run_test, main.rs 79: status = process.wait4()?
WaitWarmup ==
    /\ pc = "wait_warmup"
    /\ children' = children \ {<<test, "warmup">>}
    /\ \E success \in BOOLEAN : status' = [success |-> success]
    /\ pc' = "check_warmup"
    /\ UNCHANGED <<opts, executed, experiments, site, indices, idx, round, result,
                   graph_full, graph_short, raw_log>>

\* Variant of CheckWarmup: the warmup's exit status is not looked at.
CheckWarmupIgnoresStatus ==
    /\ pc = "check_warmup"
    /\ pc' = "spawn_run" /\ idx' = idx /\ result' = result
    /\ status' = NoStatus
    /\ UNCHANGED <<opts, executed, experiments, site, indices, round, children,
                   graph_full, graph_short, raw_log>>

\* Variant of CheckWarmup: a failed warmup is propagated as an Err.
CheckWarmupFatal ==
    /\ pc = "check_warmup"
    /\ IF ~status.success
       THEN idx' = idx /\ Exit("Err: warmup failed")
       ELSE pc' = "spawn_run" /\ idx' = idx /\ result' = result
    /\ status' = NoStatus
    /\ UNCHANGED <<opts, executed, experiments, site, indices, round, children,
                   graph_full, graph_short, raw_log>>

\* run_test, main.rs 80-87: a warmup that exited non-zero ends this run with Ok(()).
CheckWarmup ==
    /\ pc = "check_warmup"
    /\ IF ~status.success
       THEN ReturnOk
       ELSE pc' = "spawn_run" /\ idx' = idx /\ result' = result
    /\ status' = NoStatus
    /\ UNCHANGED <<opts, executed, experiments, site, indices, round, children,
                   graph_full, graph_short, raw_log>>

\* run_test, main.rs 97: spawn_sh(&test.run)?
SpawnRun ==
    /\ pc = "spawn_run"
    /\ \E spawned \in BOOLEAN :
        IF spawned
        THEN /\ children' = children \cup {<<test, "run">>}
             /\ pc' = "wait_run"
             /\ result' = result
        ELSE /\ children' = children
             /\ Exit("Err: spawn")
    /\ UNCHANGED <<opts, executed, experiments, site, indices, idx, round, status,
                   graph_full, graph_short, raw_log>>

\* run_test, main.rs 98: status = process.wait4()?, with the resource usage.
WaitRun ==
    /\ pc = "wait_run"
    /\ children' = children \ {<<test, "run">>}
    /\ \E success \in BOOLEAN, maxrss \in {0, 1} :
        status' = [success |-> success, maxrss |-> maxrss]
    /\ pc' = "check_run"
    /\ UNCHANGED <<opts, executed, experiments, site, indices, idx, round, result,
                   graph_full, graph_short, raw_log>>

\* Variant of PushTimeAndRss: the stores are assigned instead of appended to.
PushTimeAndRssOverwrite(tests, n, r) ==
    [tests EXCEPT ![n] = [@ EXCEPT !["WallTime"] = <<Sample(r)>>,
                                   !["MaxRss"] = <<Sample(r)>>]]

\* Variant of PushTimeAndRss: only the wall time is appended.
PushTimeAndRssTimeOnly(tests, n, r) ==
    [tests EXCEPT ![n] = [@ EXCEPT !["WallTime"] = Append(@, Sample(r))]]

\* Variant of PushTimeAndRss: both values are pushed to the wall-time store.
PushTimeAndRssSameKey(tests, n, r) ==
    [tests EXCEPT ![n] = [@ EXCEPT !["WallTime"] = Append(Append(@, Sample(r)), Sample(r))]]

\* main.rs 122-123: both pushes of a successful run.
PushTimeAndRss(tests, n, r) ==
    [tests EXCEPT ![n] = [@ EXCEPT !["WallTime"] = Append(@, Sample(r)),
                                   !["MaxRss"] = Append(@, Sample(r))]]

\* Variant of CheckRun: the peak RSS is only required when -m was given.
CheckRunRssOptional ==
    /\ pc = "check_run"
    /\ IF ~status.success
       THEN /\ experiments' = experiments
            /\ ReturnOk
       ELSE IF status.maxrss = 0 /\ opts.mem
       THEN /\ experiments' = experiments
            /\ idx' = idx
            /\ Exit("Err: maxrss not available")
       ELSE /\ experiments' = PushTimeAndRss(experiments, test, round)
            /\ IF opts.metric # None
               THEN pc' = "spawn_metric" /\ idx' = idx /\ result' = result
               ELSE ReturnOk
    /\ status' = NoStatus
    /\ UNCHANGED <<opts, executed, site, indices, round, children,
                   graph_full, graph_short, raw_log>>

\* Variant of CheckRun: a peak RSS of 0 skips the append and returns Ok(()).
CheckRunRssSkips ==
    /\ pc = "check_run"
    /\ IF ~status.success \/ status.maxrss = 0
       THEN /\ experiments' = experiments
            /\ ReturnOk
       ELSE /\ experiments' = PushTimeAndRss(experiments, test, round)
            /\ IF opts.metric # None
               THEN pc' = "spawn_metric" /\ idx' = idx /\ result' = result
               ELSE ReturnOk
    /\ status' = NoStatus
    /\ UNCHANGED <<opts, executed, site, indices, round, children,
                   graph_full, graph_short, raw_log>>

\* run_test, main.rs 99-125: a measured command that exited non-zero ends this run
\* with Ok(()); a peak RSS of 0 is an Err; otherwise the samples are appended and
\* the user-defined metric, if any, is obtained next.
CheckRun ==
    /\ pc = "check_run"
    /\ IF ~status.success
       THEN /\ experiments' = experiments
            /\ ReturnOk
       ELSE IF status.maxrss = 0
       THEN /\ experiments' = experiments
            /\ idx' = idx
            /\ Exit("Err: maxrss not available")
       ELSE /\ experiments' = PushTimeAndRss(experiments, test, round)
            /\ IF opts.metric # None
               THEN pc' = "spawn_metric" /\ idx' = idx /\ result' = result
               ELSE ReturnOk
    /\ status' = NoStatus
    /\ UNCHANGED <<opts, executed, site, indices, round, children,
                   graph_full, graph_short, raw_log>>

\* run_test, main.rs 126: spawn_sh(metric)?
SpawnMetric ==
    /\ pc = "spawn_metric"
    /\ \E spawned \in BOOLEAN :
        IF spawned
        THEN /\ children' = children \cup {<<test, "metric">>}
             /\ pc' = "wait_metric"
             /\ result' = result
        ELSE /\ children' = children
             /\ Exit("Err: spawn")
    /\ UNCHANGED <<opts, executed, experiments, site, indices, idx, round, status,
                   graph_full, graph_short, raw_log>>

\* run_test, main.rs 127: output = process.wait_with_output()?; the output either
\* parses as a u64 or does not.
WaitMetric ==
    /\ pc = "wait_metric"
    /\ children' = children \ {<<test, "metric">>}
    /\ \E success \in BOOLEAN, parses \in BOOLEAN :
        status' = [success |-> success, parses |-> parses]
    /\ pc' = "check_metric"
    /\ UNCHANGED <<opts, executed, experiments, site, indices, idx, round, result,
                   graph_full, graph_short, raw_log>>

\* main.rs 131: the push of the user-defined metric.
PushMetric(tests, n, r) ==
    [tests EXCEPT ![n] = [@ EXCEPT !["UserDefinedMetric"] = Append(@, Sample(r))]]

\* Variant of CheckMetric: a failed metric command skips the append and returns Ok(()).
CheckMetricSkips ==
    /\ pc = "check_metric"
    /\ IF ~status.success \/ ~status.parses
       THEN /\ experiments' = experiments
            /\ ReturnOk
       ELSE /\ experiments' = PushMetric(experiments, test, round)
            /\ ReturnOk
    /\ status' = NoStatus
    /\ UNCHANGED <<opts, executed, site, indices, round, children,
                   graph_full, graph_short, raw_log>>

\* run_test, main.rs 128-141: the metric command's exit status is asserted, its
\* output parsed with `?`, the value appended.
CheckMetric ==
    /\ pc = "check_metric"
    /\ IF ~status.success
       THEN /\ experiments' = experiments
            /\ idx' = idx
            /\ Exit("panic: assertion failed: output.status.success()")
       ELSE IF ~status.parses
       THEN /\ experiments' = experiments
            /\ idx' = idx
            /\ Exit("Err: Parsing metric")
       ELSE /\ experiments' = PushMetric(experiments, test, round)
            /\ ReturnOk
    /\ status' = NoStatus
    /\ UNCHANGED <<opts, executed, site, indices, round, children,
                   graph_full, graph_short, raw_log>>

\* Variant of ClearAll: only the wall-time stores are cleared.
ClearAllTimeOnly(tests) == [n \in DOMAIN tests |-> [tests[n] EXCEPT !["WallTime"] = <<>>]]

\* main.rs 217-221: numbers.clear() on every store of every experiment.
ClearAll(tests) == [n \in DOMAIN tests |-> [k \in MeasureKeys |-> <<>>]]

\* main.rs 215-232: the ignored round is over; clear and go on to the loop.
IgnoreFirstClear ==
    /\ pc = "pair_done"
    /\ site = "ignore_first"
    /\ experiments' = ClearAll(experiments)
    /\ site' = "loop"
    /\ pc' = "run_pair"
    /\ UNCHANGED <<opts, executed, indices, idx, round, children, result,
                   graph_full, graph_short, raw_log, status>>

\* Variant of LoopTarget: the report is rendered from the first sample on.
LoopTargetNoGate(tests, iterations) ==
    IF Some(min_count(tests)) = iterations THEN "break"
    ELSE IF min_count(tests) < 1 THEN "continue"
    ELSE "render"

\* main.rs 268-275: where the loop goes after a round.
LoopTarget(tests, iterations) ==
    IF Some(min_count(tests)) = iterations THEN "break"
    ELSE IF min_count(tests) < 2 THEN "continue"
    ELSE "render"

LoopCheck ==
    /\ pc = "pair_done"
    /\ site = "loop"
    /\ LET t == LoopTarget(experiments, opts.iterations) IN
        CASE t = "break" -> Exit("Ok")
          [] t = "continue" -> pc' = "run_pair" /\ result' = result
          [] t = "render" -> pc' = "render_full" /\ result' = result
    /\ UNCHANGED <<opts, executed, experiments, site, indices, idx, round, children,
                   graph_full, graph_short, raw_log, status>>

\* main.rs 255-263: the active metrics, in activation order.
Measures(o) ==
    <<"WallTime">>
    \o (IF o.mem THEN <<"MaxRss">> ELSE <<>>)
    \o (IF o.metric # None THEN <<"UserDefinedMetric">> ELSE <<>>)

\* Measure::id (tr.rs 42-44, 65-67, 88-90).
Id(key) ==
    CASE key = "WallTime" -> "wall-time"
      [] key = "MaxRss" -> "max-rss"
      [] key = "UserDefinedMetric" -> "user-defined-metric"

\* MeasureDyn::display_stats (tr.rs 122-130): stats().unwrap() of every experiment's
\* store; there are no statistics of fewer than two samples.
StatsAvailable(key, tests) == \A n \in DOMAIN tests : Len(tests[n][key]) >= 2

\* MeasureDyn::render_stats (tr.rs 132-138): one metric's block, computed from the
\* stores of that metric of every experiment.
RenderBlock(key, tests, include_distr) ==
    [block |-> key, distr |-> include_distr,
     data |-> [n \in DOMAIN tests |-> tests[n][key]]]

\* Variant of AllRenderStats: "\n" before every block, the first included.
AllRenderStatsLeadingSep(measures, tests, include_distr) ==
    [j \in 1..(2 * Len(measures)) |->
        IF j % 2 = 0 THEN RenderBlock(measures[j \div 2], tests, include_distr)
        ELSE [sep |-> "\n"]]

\* AllMeasures::render_stats (tr.rs 154-167): "\n" before every block but the first.
AllRenderStats(measures, tests, include_distr) ==
    [j \in 1..(2 * Len(measures) - 1) |->
        IF j % 2 = 1 THEN RenderBlock(measures[(j + 1) \div 2], tests, include_distr)
        ELSE [sep |-> "\n"]]

AllStatsAvailable(measures, tests) ==
    \A j \in 1..Len(measures) : StatsAvailable(measures[j], tests)

\* main.rs 279: graph_full = measures.render_stats(&experiments, true)?
RenderFull ==
    /\ pc = "render_full"
    /\ IF AllStatsAvailable(Measures(opts), experiments)
       THEN /\ graph_full' = AllRenderStats(Measures(opts), experiments, TRUE)
            /\ pc' = "render_short"
            /\ result' = result
       ELSE /\ graph_full' = graph_full
            /\ Exit("panic: called Option::unwrap() on a None value")
    /\ UNCHANGED <<opts, executed, experiments, site, indices, idx, round, children,
                   graph_short, raw_log, status>>

\* Variant of RenderShort: the short report is rendered with the distribution too.
RenderShortAsFull ==
    /\ pc = "render_short"
    /\ IF AllStatsAvailable(Measures(opts), experiments)
       THEN /\ graph_short' = AllRenderStats(Measures(opts), experiments, TRUE)
            /\ pc' = "write_raw"
            /\ result' = result
       ELSE /\ graph_short' = graph_short
            /\ Exit("panic: called Option::unwrap() on a None value")
    /\ UNCHANGED <<opts, executed, experiments, site, indices, idx, round, children,
                   graph_full, raw_log, status>>

\* main.rs 280: graph_short = measures.render_stats(&experiments, false)?
RenderShort ==
    /\ pc = "render_short"
    /\ IF AllStatsAvailable(Measures(opts), experiments)
       THEN /\ graph_short' = AllRenderStats(Measures(opts), experiments, FALSE)
            /\ pc' = "write_raw"
            /\ result' = result
       ELSE /\ graph_short' = graph_short
            /\ Exit("panic: called Option::unwrap() on a None value")
    /\ UNCHANGED <<opts, executed, experiments, site, indices, idx, round, children,
                   graph_full, raw_log, status>>

\* Variant of RawOf: only the newest sample of each store is forwarded.
RawOfNewestOnly(key, tests) ==
    [id |-> Id(key),
     numbers |-> [j \in 1..Len(Keys(tests)) |->
                    LET s == tests[Keys(tests)[j]][key] IN SubSeq(s, Len(s), Len(s))]]

\* MeasureDyn::write_raw (tr.rs 140-148): the stores of one metric in collection order.
RawOf(key, tests) ==
    [id |-> Id(key),
     numbers |-> [j \in 1..Len(Keys(tests)) |-> tests[Keys(tests)[j]][key]]]

\* AllMeasures::write_raw (tr.rs 169-178): every active metric in order.
AllWriteRaw(measures, tests) ==
    [j \in 1..Len(measures) |-> RawOf(measures[j], tests)]

\* main.rs 282-288: the reports are written, the raw samples exported, the locals of
\* this iteration dropped, and the loop starts over.
WriteRaw ==
    /\ pc = "write_raw"
    /\ raw_log' = AllWriteRaw(Measures(opts), experiments)
    /\ graph_full' = <<>>
    /\ graph_short' = <<>>
    /\ pc' = "run_pair"
    /\ UNCHANGED <<opts, executed, experiments, site, indices, idx, round, children,
                   result, status>>

Next ==
    \/ MainBranch
    \/ RunPairStart
    \/ SpawnWarmup
    \/ WaitWarmup
    \/ CheckWarmup
    \/ SpawnRun
    \/ WaitRun
    \/ CheckRun
    \/ SpawnMetric
    \/ WaitMetric
    \/ CheckMetric
    \/ IgnoreFirstClear
    \/ LoopCheck
    \/ RenderFull
    \/ RenderShort
    \/ WriteRaw

Spec == Init /\ [][Next]_vars

\* AllMeasures::render_stats and AllMeasures::write_raw on their own: main's calls
\* of main.rs 279-287 from any collection whose stores hold 0..MaxStored samples
\* each, aligned or not, with any choice of -b.., -m and --metric.
InitRender ==
    /\ opts \in {o \in OptsSet : ~o.random_order /\ ~o.ignore_first /\ o.iterations = None}
    /\ experiments \in [opts.present ->
                          [MeasureKeys -> {[j \in 1..len |-> Sample(j)] : len \in 0..MaxStored}]]
    /\ pc = "render_full"
    /\ site = "loop"
    /\ indices = Keys(experiments)
    /\ idx = Len(indices)
    /\ round = MaxRounds
    /\ children = {}
    /\ result = "running"
    /\ graph_full = <<>>
    /\ graph_short = <<>>
    /\ raw_log = <<>>
    /\ status = NoStatus
    /\ executed = indices

NextRender ==
    \/ RenderFull
    \/ RenderShort
    \/ WriteRaw

SpecRender == InitRender /\ [][NextRender]_vars

--------------------------------------------------------------------------
\* What a state holds of rendered or exported samples.
ErrMaxRss == "Err: maxrss not available"

MetricFailures == {"panic: assertion failed: output.status.success()", "Err: Parsing metric"}

Stores == {experiments[n][k] : n \in DOMAIN experiments, k \in MeasureKeys}

Blocks(graph) == {graph[j] : j \in {i \in DOMAIN graph : "data" \in DOMAIN graph[i]}}

RenderedStores ==
    {b.data[n] : b \in Blocks(graph_full) \cup Blocks(graph_short), n \in DOMAIN experiments}

ExportedStores ==
    {raw_log[j].numbers[i] : j \in DOMAIN raw_log, i \in 1..Cardinality(DOMAIN experiments)}

\* The step of run_test that finds the warmup or the measured command failed.
CommandFailed ==
    \/ pc = "check_warmup" /\ ~status.success
    \/ pc = "check_run" /\ ~status.success

\* The step of run_test that finds the measured command succeeded with peak RSS 0.
RssUnavailable == pc = "check_run" /\ status.success /\ status.maxrss = 0

\* The step of run_test that finds the user-metric command failed.
MetricFailed == pc = "check_metric" /\ (~status.success \/ ~status.parses)

--------------------------------------------------------------------------
\* C1: render_stats (full or short) is never invoked while some experiment has
\* fewer than 2 samples in the store of an active metric, and so the statistics'
\* unwrap never panics.
C1_RenderGated ==
    /\ pc \in {"render_full", "render_short"} =>
          \A n \in DOMAIN experiments : \A j \in 1..Len(Measures(opts)) :
              Len(experiments[n][Measures(opts)[j]]) >= 2
    /\ result # "panic: called Option::unwrap() on a None value"

\* A render with all three metrics active after one experiment failed in a round.
C1_Witness ==
    /\ pc = "render_full"
    /\ opts.mem /\ opts.metric # None /\ ~opts.ignore_first
    /\ \E n, m \in DOMAIN experiments : runs(experiments[n]) = 2 /\ runs(experiments[m]) = 3

\* C2: the loop breaks only when an iteration target n is given, every experiment
\* has at least n samples and the minimum count equals n; so it does not break
\* while some experiment has fewer than n samples.
C2_MinimumIsAuthoritative ==
    [][(pc = "pair_done" /\ site = "loop" /\ pc' = "exit") =>
          \E t \in 0..MaxRounds :
              /\ opts.iterations = Some(t)
              /\ \A n \in DOMAIN experiments : runs(experiments[n]) >= t
              /\ min_count(experiments) = t]_vars

\* The loop stopped on the target when one experiment already had more samples.
C2_Witness ==
    /\ result = "Ok"
    /\ \E n \in DOMAIN experiments : Some(runs(experiments[n]) - 1) = opts.iterations

\* C3: once the minimum sample count has reached the iteration target at the end of
\* a round, the loop stops there and starts no other round.
C3_StopsOnceTargetReached ==
    [][(/\ pc = "pair_done" /\ site = "loop"
        /\ \E t \in 0..MaxRounds :
              opts.iterations = Some(t) /\ min_count(experiments) >= t)
       => pc' = "exit" /\ result' = "Ok"]_vars

\* C4: a warmup or measured command that exits non-zero appends nothing to any
\* store, and run_test returns Ok: the round goes on with the next experiment, or
\* ends normally after the last one.
C4_FailedCommandSkipsAppend ==
    [][CommandFailed =>
          /\ experiments' = experiments
          /\ result' = "running"
          /\ IF idx < Len(indices)
             THEN pc' = "spawn_warmup" /\ idx' = idx + 1
             ELSE pc' = "pair_done"]_vars

\* In round 2 a measured command is running, although one experiment got no sample
\* in round 1 while another did.
C4_Witness ==
    /\ ~opts.ignore_first /\ round = 2 /\ pc = "wait_run"
    /\ \E n, m \in DOMAIN experiments :
          /\ experiments[n]["WallTime"] = <<>>
          /\ experiments[m]["WallTime"] = <<1>>

\* C5: a successful measured command with peak RSS 0 makes run_test return the Err
\* "maxrss not available" and leaves every store as it was, with or without -m.
C5_RssUnavailableAppendsNothing ==
    [][RssUnavailable => experiments' = experiments /\ result' = ErrMaxRss]_vars

\* The Err was returned without -m, with a user metric configured and samples stored.
C5_Witness ==
    /\ result = ErrMaxRss /\ ~opts.mem /\ opts.metric # None
    /\ \E n \in DOMAIN experiments : experiments[n]["UserDefinedMetric"] # <<>>

\* C6 as claimed: after a peak RSS of 0 the loop goes on with the next experiment or
\* the end of the round.
C6_LoopSurvivesRssUnavailable ==
    [][RssUnavailable => result' = "running" /\ pc' \in {"spawn_warmup", "pair_done"}]_vars

\* C6 amended: a peak RSS of 0 ends the process with an Err; nothing runs afterwards.
C6_RssUnavailableEndsRun ==
    [][/\ RssUnavailable => pc' = "exit" /\ result' = ErrMaxRss
       /\ pc # "exit"]_vars

\* The process ended on a peak RSS of 0 with experiments and rounds left to run.
C6_Witness ==
    /\ pc = "exit" /\ result = ErrMaxRss
    /\ idx < Len(indices) /\ round < MaxRounds

\* C7 as claimed: a failed user-metric command does not abort the run loop.
C7_LoopSurvivesMetricFailure ==
    [][MetricFailed => result' = "running" /\ pc' \in {"spawn_warmup", "pair_done"}]_vars

\* C7 amended: a failed user-metric command ends the process (a panic on a non-zero
\* exit, an Err on unparsable output); the WallTime and MaxRss samples of that run
\* are in the stores, the UserDefinedMetric sample is not.
C7_MetricFailureEndsRun ==
    [][MetricFailed =>
          /\ pc' = "exit" /\ result' \in MetricFailures
          /\ (result' = "Err: Parsing metric") = status.success
          /\ experiments' = experiments
          /\ LET m == experiments[test] IN
                /\ Len(m["WallTime"]) = Len(m["UserDefinedMetric"]) + 1
                /\ m["WallTime"][Len(m["WallTime"])] = Sample(round)
                /\ m["MaxRss"][Len(m["MaxRss"])] = Sample(round)]_vars

\* The process panicked on the metric command with an experiment left to run.
C7_Witness ==
    /\ pc = "exit" /\ result = "panic: assertion failed: output.status.success()"
    /\ idx < Len(indices)
    /\ Len(experiments[test]["WallTime"]) = 2

\* C8: a step never removes or reorders samples of a store, except the ignore-first
\* clear; that clear happens at the end of the first round given with -i, empties
\* every store, and never happens once the collecting loop has started.
C8_AppendMonotonic ==
    [][/\ (\E n \in DOMAIN experiments, k \in MeasureKeys :
              ~IsPrefix(experiments[n][k], experiments'[n][k]))
          => pc = "pair_done" /\ site = "ignore_first" /\ round = 1
       /\ (pc = "pair_done" /\ site = "ignore_first")
          => site' = "loop" /\ \A n \in DOMAIN experiments, k \in MeasureKeys :
                                  experiments'[n][k] = <<>>
       /\ site = "loop" => site' = "loop"
       /\ (site # "ignore_first" /\ site' = "ignore_first") => opts.ignore_first /\ pc = "main"
       /\ (pc = "main" /\ opts.ignore_first) => site' = "ignore_first"]_vars

\* With -i, a store has grown by two appends after the clear.
C8_Witness ==
    /\ opts.ignore_first
    /\ \E n \in DOMAIN experiments : experiments[n]["MaxRss"] = <<Sample(2), Sample(3)>>

\* C9: with -i exactly one round is run before the collecting loop, and from the
\* start of the loop on no store, report or export holds a sample of that round;
\* the loop begins with every store empty.
C9_IgnoredRoundDiscarded ==
    [](
        /\ site = "ignore_first" => round <= 1
        /\ (opts.ignore_first /\ site = "loop") =>
              /\ round >= 1
              /\ \A s \in Stores \cup RenderedStores \cup ExportedStores : Sample(1) \notin Range(s)
              /\ (round = 1 => \A s \in Stores : s = <<>>))

\* With -i, samples have been exported.
C9_Witness ==
    /\ opts.ignore_first /\ opts.mem /\ opts.metric # None
    /\ raw_log # <<>>
    /\ \E s \in ExportedStores : s = <<Sample(2), Sample(3)>>

\* C10 as claimed: the MaxRss stores are empty without -m and the UserDefinedMetric
\* stores are empty without --metric.
C10_InactiveStoresEmpty ==
    \A n \in DOMAIN experiments :
        /\ ~opts.mem => experiments[n]["MaxRss"] = <<>>
        /\ opts.metric = None => experiments[n]["UserDefinedMetric"] = <<>>

\* C10 amended: the UserDefinedMetric stores are empty without --metric; the MaxRss
\* store gets a sample with every WallTime sample whether or not -m was given, and
\* an inactive metric is only never rendered or exported.
C10_InactiveNotRendered ==
    /\ \A n \in DOMAIN experiments :
          /\ opts.metric = None => experiments[n]["UserDefinedMetric"] = <<>>
          /\ experiments[n]["MaxRss"] = experiments[n]["WallTime"]
    /\ \A b \in Blocks(graph_full) \cup Blocks(graph_short) : b.block \in Range(Measures(opts))
    /\ \A j \in DOMAIN raw_log : \E k \in Range(Measures(opts)) : raw_log[j].id = Id(k)

\* Without -m and --metric, MaxRss samples are stored and an export has happened.
C10_Witness ==
    /\ ~opts.mem /\ opts.metric = None
    /\ raw_log # <<>>
    /\ \E n \in DOMAIN experiments : Len(experiments[n]["MaxRss"]) = 3

\* C11: at most one spawned child is live in any state, and a child is live only
\* between its spawn and the wait for it: every child has been waited for before
\* the next one is spawned, within a run, across experiments and across rounds.
C11_OneChildAtATime ==
    /\ Cardinality(children) <= 1
    /\ children = CASE pc = "wait_warmup" -> {<<test, "warmup">>}
                    [] pc = "wait_run" -> {<<test, "run">>}
                    [] pc = "wait_metric" -> {<<test, "metric">>}
                    [] OTHER -> {}

\* The user-metric command of the second experiment of round 2 is the only child.
C11_Witness ==
    /\ round = 2 /\ idx = 2
    /\ children = {<<indices[2], "metric">>}

\* C12: at the end of every round after which every experiment has at least 2
\* samples the report is rendered (and the raw samples exported afterwards),
\* whatever the iteration target is.
C12_ReportAfterSecondIteration ==
    [][(pc = "pair_done" /\ site = "loop" /\ min_count(experiments) >= 2)
       => pc' = "render_full"]_vars

\* The metric kinds that -m and --metric activate, in the order of MeasureKey::ALL.
ActiveKinds ==
    SelectSeq(MeasureKeyALL,
              LAMBDA k : \/ k = "WallTime"
                         \/ k = "MaxRss" /\ opts.mem
                         \/ k = "UserDefinedMetric" /\ opts.metric # None)

\* A report of one block per active kind, in order, with "\n" between two blocks only.
OneBlockPerActiveKind(graph, include_distr) ==
    /\ Len(graph) = 2 * Len(ActiveKinds) - 1
    /\ \A j \in 1..Len(ActiveKinds) :
          graph[2 * j - 1] = [block |-> ActiveKinds[j], distr |-> include_distr,
                              data |-> [n \in DOMAIN experiments |-> experiments[n][ActiveKinds[j]]]]
    /\ \A j \in 1..(Len(ActiveKinds) - 1) : graph[2 * j] = [sep |-> "\n"]

\* C13: AllMeasures::render_stats yields one block per active metric in activation
\* order (WallTime, MaxRss iff -m, UserDefinedMetric iff --metric), separated by
\* "\n" between consecutive blocks only; when the block of any active metric fails,
\* the call fails and nothing is rendered or exported; write_raw visits the same
\* metrics in the same order.
C13_BlocksInActivationOrder ==
    /\ pc \in {"render_short", "write_raw"} => OneBlockPerActiveKind(graph_full, TRUE)
    /\ pc = "write_raw" => OneBlockPerActiveKind(graph_short, FALSE)
    /\ raw_log # <<>> =>
          /\ Len(raw_log) = Len(ActiveKinds)
          /\ \A j \in 1..Len(ActiveKinds) : raw_log[j].id = Id(ActiveKinds[j])
    /\ (\E n \in DOMAIN experiments, j \in 1..Len(ActiveKinds) :
            Len(experiments[n][ActiveKinds[j]]) < 2)
          => /\ pc \in {"render_full", "exit"}
             /\ graph_full = <<>> /\ graph_short = <<>> /\ raw_log = <<>>

\* Both reports, of three blocks and two separators each, have been rendered for
\* two experiments.
C13_Witness ==
    /\ pc = "write_raw"
    /\ Len(graph_full) = 5 /\ Len(graph_short) = 5
    /\ Cardinality(DOMAIN experiments) = 2

\* A report with the distribution plots taken out of its blocks.
WithoutDistr(graph) ==
    [j \in DOMAIN graph |->
        IF "distr" \in DOMAIN graph[j] THEN [graph[j] EXCEPT !.distr = FALSE] ELSE graph[j]]

\* C14: the render and export steps leave every store unchanged, and when both
\* reports of a round exist they are computed from the same, current stores: the
\* short report is the full report without the distribution plots.
C14_RenderingOnlyReads ==
    [][/\ pc \in {"render_full", "render_short", "write_raw"} => experiments' = experiments
       /\ pc' = "write_raw" =>
             /\ \A b \in Blocks(graph_full') :
                   b.distr /\ \A n \in DOMAIN experiments : b.data[n] = experiments'[n][b.block]
             /\ graph_short' = WithoutDistr(graph_full')
             /\ graph_short' # graph_full']_vars

\* Both reports exist for two experiments whose stores differ.
C14_Witness ==
    /\ pc = "write_raw" /\ opts.mem
    /\ graph_full # <<>> /\ graph_short # <<>>
    /\ \E n, m \in DOMAIN experiments : experiments[n]["WallTime"] # experiments[m]["WallTime"]

\* C15: in a call of run_pair the experiments are executed in the order of indices,
\* a permutation of the collection's keys, so at the end of the call every
\* experiment has been executed exactly once; without -r the order is the
\* collection order A..E.
C15_RoundRunsEveryExperimentOnce ==
    [](
        round >= 1 =>
            /\ Len(indices) = Cardinality(DOMAIN experiments)
            /\ \A n \in DOMAIN experiments : \E j \in 1..Len(indices) : indices[j] = n
            /\ \A a, b \in 1..Len(indices) : a # b => indices[a] # indices[b]
            /\ ~opts.random_order =>
                  \A a, b \in 1..Len(indices) : a < b => Position(indices[a]) < Position(indices[b])
            /\ pc = "spawn_warmup" => executed = SubSeq(indices, 1, idx - 1)
            /\ pc \notin {"spawn_warmup", "exit"} => executed = SubSeq(indices, 1, idx)
            /\ pc \in {"pair_done", "run_pair", "render_full", "render_short", "write_raw"}
                  => executed = indices)

\* With -r, a round that ran B before A has ended after a round was already done.
C15_Witness ==
    /\ opts.random_order /\ round = 2 /\ pc = "pair_done"
    /\ executed = <<"B", "A">>

\* The number of samples of store s that were measured before the current round.
CountBefore(s) ==
    IF Len(s) > 0 /\ s[Len(s)] = Sample(round) THEN Len(s) - 1 ELSE Len(s)

\* C16: every store holds at most one sample per round: its samples are of strictly
\* increasing rounds and only the last one can be of the current round; so since
\* the start of the current round each store has grown by 0 or 1, and the minimum
\* sample count across experiments by at most 1.
C16_AtMostOneSamplePerRound ==
    [](
        /\ \A n \in DOMAIN experiments, k \in MeasureKeys :
              LET s == experiments[n][k] IN
                 /\ \A a \in 1..(Len(s) - 1) : s[a] < s[a + 1] /\ s[a] < Sample(round)
                 /\ Len(s) > 0 => s[Len(s)] <= Sample(round)
        /\ min_count(experiments)
              <= SetMin({CountBefore(experiments[n]["WallTime"]) : n \in DOMAIN experiments}) + 1)

\* After three rounds one experiment got a sample in each and another missed round 2.
C16_Witness ==
    /\ pc = "pair_done" /\ round = 3
    /\ \E n, m \in DOMAIN experiments :
          /\ experiments[n]["WallTime"] = <<Sample(1), Sample(2), Sample(3)>>
          /\ experiments[m]["WallTime"] = <<Sample(1), Sample(3)>>

\* The last sample of a store, 0 for an empty store.
LastOf(s) == IF Len(s) = 0 THEN 0 ELSE s[Len(s)]

\* C17: within one run the steps go warmup, measured command, peak-RSS check,
\* append of WallTime and MaxRss, user-metric command, append of UserDefinedMetric:
\* the measured command is spawned only after the warmup exited successfully, a
\* sample is appended only after the measured command exited successfully with a
\* non-zero peak RSS, and the user-metric command is spawned only after that
\* append, for the same experiment.
C17_RunStepsOrdered ==
    [][/\ \A c \in children' \ children :
             /\ c[1] = test
             /\ pc = CASE c[2] = "warmup" -> "spawn_warmup"
                      [] c[2] = "run" -> "spawn_run"
                      [] c[2] = "metric" -> "spawn_metric"
       /\ pc' = "spawn_run" => pc = "check_warmup" /\ status.success /\ idx' = idx
       /\ pc' = "spawn_metric" =>
             /\ pc = "check_run" /\ status.success /\ status.maxrss # 0
             /\ opts.metric # None /\ idx' = idx
             /\ LastOf(experiments'[test]["WallTime"]) = Sample(round)
             /\ LastOf(experiments'[test]["MaxRss"]) = Sample(round)
             /\ LastOf(experiments'[test]["UserDefinedMetric"]) # Sample(round)
       /\ \A n \in DOMAIN experiments, k \in MeasureKeys :
             Len(experiments'[n][k]) > Len(experiments[n][k]) =>
                /\ n = test
                /\ IF k = "UserDefinedMetric"
                   THEN /\ pc = "check_metric" /\ status.success /\ status.parses
                        /\ LastOf(experiments[n]["WallTime"]) = Sample(round)
                   ELSE /\ pc = "check_run" /\ status.success /\ status.maxrss # 0
                        /\ experiments'[n]["UserDefinedMetric"] = experiments[n]["UserDefinedMetric"]]_vars

\* In round 2 the user-metric command runs after the WallTime and MaxRss samples of
\* that run were appended.
C17_Witness ==
    /\ round = 2 /\ children = {<<test, "metric">>}
    /\ LastOf(experiments[test]["WallTime"]) = Sample(2)
    /\ LastOf(experiments[test]["UserDefinedMetric"]) = Sample(1)

\* The stores of experiment n have the same length (UserDefinedMetric counted only
\* when --metric is configured).
Aligned(n) ==
    /\ Len(experiments[n]["MaxRss"]) = Len(experiments[n]["WallTime"])
    /\ opts.metric # None =>
          Len(experiments[n]["UserDefinedMetric"]) = Len(experiments[n]["WallTime"])

\* C18: at every round boundary at which the loop is running (before and after a
\* round, at the renders and at the export) every experiment's stores are aligned;
\* stores that differ are those of the run in progress between its two appends, or
\* those left behind by a process that ended with a fatal error.
C18_StoreLengthsAligned ==
    [](
        /\ pc \in {"main", "run_pair", "pair_done", "render_full", "render_short", "write_raw"}
              => \A n \in DOMAIN experiments : Aligned(n)
        /\ \A n \in DOMAIN experiments :
              ~Aligned(n) =>
                 /\ n = test
                 /\ Len(experiments[n]["UserDefinedMetric"]) + 1 = Len(experiments[n]["WallTime"])
                 /\ \/ pc \in {"spawn_metric", "wait_metric", "check_metric"}
                    \/ pc = "exit" /\ result \in MetricFailures \cup {"Err: spawn"})

\* An export with --metric configured, from stores of different experiments that
\* have different lengths.
C18_Witness ==
    /\ pc = "write_raw" /\ opts.metric # None
    /\ \E n, m \in DOMAIN experiments :
          /\ Len(experiments[n]["UserDefinedMetric"]) = 2
          /\ Len(experiments[m]["UserDefinedMetric"]) = 3

\* The samples of store s measured in rounds 1..r.
UpTo(s, r) == SelectSeq(s, LAMBDA x : x <= Sample(r))

\* What an export of the current stores writes: per active metric, tagged by its id,
\* the complete store of every experiment in collection order.
CompleteExport ==
    [j \in 1..Len(ActiveKinds) |->
        [id |-> Id(ActiveKinds[j]),
         numbers |-> [i \in 1..Len(Keys(experiments)) |->
                         experiments[Keys(experiments)[i]][ActiveKinds[j]]]]]

--------------------------------------------------------------------------
TypeOK ==
    /\ opts \in OptsSet
    /\ DOMAIN experiments = opts.present
    /\ pc \in {"main", "run_pair", "spawn_warmup", "wait_warmup", "spawn_run",
               "wait_run", "spawn_metric", "wait_metric", "pair_done",
               "check_warmup", "check_run", "check_metric",
               "render_full", "render_short", "write_raw", "exit"}
    /\ round \in 0..MaxRounds

====
